---- MODULE Spec2Model ----
(***************************************************************************)
(* Model of the domain availability checker.                               *)
(*                                                                         *)
(*   src/src/pages/api/check-domains.ts   the API handler and its three    *)
(*                                        probes (checkDNS, checkWhoisPort,*)
(*                                        checkHTTP)                       *)
(*   src/src/pages/index.tsx              handleCheck: the client-side     *)
(*                                        cleaning of the textarea lines   *)
(*                                                                         *)
(* JavaScript runs every callback to completion and drains the microtask   *)
(* queue before the next I/O or timer callback runs.  One action of the    *)
(* model is therefore one callback (the handler's synchronous prefix, or   *)
(* one socket / resolver / request event) together with every promise      *)
(* continuation it makes runnable: the .catch wrappers, the inner          *)
(* Promise.all, the body of the per-domain async function, the outer       *)
(* Promise.all and res.status(..).json(..).                                *)
(***************************************************************************)
EXTENDS Integers, Sequences, FiniteSets, TLC

\* Largest number of elements of the domains array of a request.
MaxDomains == 2

\* Largest number of pieces the textarea content is built from.
MaxPieces == 3

(***************************************************************************)
(* JavaScript values at the request boundary.  A string is a sequence of   *)
(* one-character strings, so that the normalizer can work on characters.   *)
(***************************************************************************)
Str(s) == [type |-> "string", val |-> s]
Num(s) == [type |-> "number", val |-> s]

\* The elements a domains array is made of: a hostname and the number 42.
\* The probes never look into a hostname, and the network answers each probe
\* of each element on its own, so one hostname stands for all.
Elems ==
  { Str(<< "a" >>), Num(<< "4", "2" >>) }

\* All sequences of length at most n over S.
SeqUpTo(S, n) == UNION { [1..k -> S] : k \in 0..n }

\* A hostname as a client other than the page may post it: the handler takes
\* req.body as it arrives.
RawHost == Str(<< "W", "W", "W", ".", "a" >>)

Bodies ==
     { [kind |-> "null",      domains |-> << >>],    \* JSON body null
       [kind |-> "nodomains", domains |-> << >>],    \* {} : domains undefined
       [kind |-> "notarray",  domains |-> << >>] }   \* {domains: "a"}
  \cup { [kind |-> "array", domains |-> d] : d \in SeqUpTo(Elems, MaxDomains) }
  \cup { [kind |-> "array", domains |-> << RawHost >>] }

Methods == { "POST", "GET" }

(***************************************************************************)
(* Promises.                                                               *)
(***************************************************************************)
PendingP      == [st |-> "pending",   v |-> FALSE]
Fulfilled(b)  == [st |-> "fulfilled", v |-> b]
RejectedP     == [st |-> "rejected",  v |-> FALSE]

\* resolve(v) of a new Promise((resolve) => ...): only the first call settles.
ResolveAlways(p, b) == Fulfilled(b)
Resolve(p, b) == IF p.st = "pending" THEN Fulfilled(b) ELSE p

\* p.catch(() => false)
CatchNothing(p) == p
CatchFalse(p) == IF p.st = "rejected" THEN Fulfilled(FALSE) ELSE p

VARIABLES
  method,      \* req.method
  body,        \* req.body
  pc,          \* "recv" | "probing" | "done" | "threw"
  status,      \* status of the response, 0 while none was sent
  sent,        \* the response body: none, empty (end()) or json
  dnsEv,       \* per domain: what dns.resolve did
  whoisSock,   \* per domain: the net.Socket of checkWhoisPort
  whoisP,      \* per domain: the promise checkWhoisPort returned
  httpReq,     \* per domain: the ClientRequest of checkHTTP
  httpP,       \* per domain: the promise checkHTTP returned
  results,     \* the values array of the outer Promise.all
  rawText,     \* the textarea content of the page (index.tsx)
  domainList,  \* handleCheck's domainList
  uiPc         \* "idle" | "rejected" | "posted"

hvars == << method, body, pc, status, sent, dnsEv, whoisSock, whoisP,
            httpReq, httpP, results >>
uvars == << rawText, domainList, uiPc >>
vars == << method, body, pc, status, sent, dnsEv, whoisSock, whoisP,
           httpReq, httpP, results, rawText, domainList, uiPc >>

(***************************************************************************)
(* The probes, as functions of what the network did.                       *)
(***************************************************************************)
\* checkDNS: the promise of the async function, given the resolver's answer.
\*   "ok"        resolveDns fulfilled                    -> return false
\*   "ENOTFOUND" resolveDns rejected, code ENOTFOUND      -> return true
\*   any other code (ETIMEOUT, ERR_INVALID_ARG_TYPE, ...): throw error
CheckDNSNoRethrow(ev) ==
  CASE ev = "pending"   -> PendingP
    [] ev = "ok"        -> Fulfilled(FALSE)
    [] OTHER            -> Fulfilled(TRUE)
CheckDNS(ev) ==
  CASE ev = "pending"   -> PendingP
    [] ev = "ok"        -> Fulfilled(FALSE)
    [] ev = "ENOTFOUND" -> Fulfilled(TRUE)
    [] OTHER            -> RejectedP

\* checkDNS treats every error code but ENOTFOUND alike (lines 26-29).  The
\* model has two of them: ETIMEOUT, the resolver's own timeout (platform
\* default) when no answer comes, and EINVAL, the ERR_INVALID_ARG_TYPE that
\* dns.resolve throws for a hostname that is not a string.
DnsOtherCodes == { "ETIMEOUT", "EINVAL" }

\* checkWhoisPort: the value each socket handler passes to resolve.
WhoisValueTimeoutTrue(ev) == ev # "connect"
WhoisValue(ev) ==
  CASE ev = "error"   -> TRUE
    [] ev = "timeout" -> FALSE
    [] ev = "connect" -> FALSE

\* const timeout = 2000; socket.setTimeout(timeout): a timeout of 0 arms no timer.
WhoisTimeoutMs == 2000
WhoisNoTimer == FALSE
WhoisTimerArmed == WhoisTimeoutMs > 0

\* checkHTTP: the value each request handler passes to resolve.
HttpValue(ev) ==
  CASE ev = "response" -> FALSE
    [] ev = "error"    -> TRUE
    [] ev = "timeout"  -> TRUE

\* const timeout = 3000, passed to https.get as options.timeout.
HttpTimeoutMs == 3000
HttpTimerArmed == HttpTimeoutMs > 0

(***************************************************************************)
(* The per-domain async function of domains.map (lines 101-139).           *)
(***************************************************************************)
NoMethods == [dns |-> FALSE, whois |-> FALSE, http |-> FALSE]

\* availableCount kept in one variable for the whole batch instead of one per
\* domain: the flags of the domains that returned before are counted too.
FlagCount(m) ==
  (IF m.dns THEN 1 ELSE 0) + (IF m.whois THEN 1 ELSE 0) + (IF m.http THEN 1 ELSE 0)

RECURSIVE CountedBefore(_)
CountedBefore(k) ==
  IF k = 0 THEN 0
  ELSE CountedBefore(k - 1)
         + (IF results[k] # << >> THEN FlagCount(results[k][1].methods) ELSE 0)

AvailableCountShared(m) == FlagCount(m) + CountedBefore(Len(results))

\* Object.values(methodResults).filter((result) => result).length
AvailableCount(m) ==
  (IF m.dns THEN 1 ELSE 0) + (IF m.whois THEN 1 ELSE 0) + (IF m.http THEN 1 ELSE 0)

\* available: availableCount >= 2
AvailableAny(m) == AvailableCount(m) >= 1
Available(m) == AvailableCount(m) >= 2

ErrorText == "Unable to check domain availability"

\* The result of the catch block (lines 128-137).
ErrorResult(domain) ==
  [domain |-> domain, available |-> FALSE, methods |-> NoMethods,
   hasError |-> TRUE, error |-> ErrorText]

\* A try block that attaches the error text to every result.
NormalResultWithError(domain, m) ==
  [domain |-> domain, available |-> Available(m), methods |-> m,
   hasError |-> TRUE, error |-> ErrorText]

\* The result of the try block (lines 112-126).
NormalResult(domain, m) ==
  [domain |-> domain, available |-> Available(m), methods |-> m,
   hasError |-> FALSE, error |-> ""]

\* Promise.race in the place of Promise.all: settled with the first of the
\* three that settles.
InnerRace(d, w, h) ==
  IF d.st = "rejected" \/ w.st = "rejected" \/ h.st = "rejected" THEN "rejected"
  ELSE IF d.st = "fulfilled" \/ w.st = "fulfilled" \/ h.st = "fulfilled" THEN "fulfilled"
  ELSE "pending"

\* The inner Promise.all (line 104) of three promises: rejected as soon as
\* one is rejected, fulfilled once all are, pending otherwise.
InnerAll(d, w, h) ==
  IF d.st = "rejected" \/ w.st = "rejected" \/ h.st = "rejected" THEN "rejected"
  ELSE IF d.st = "fulfilled" /\ w.st = "fulfilled" /\ h.st = "fulfilled" THEN "fulfilled"
  ELSE "pending"

\* The body of the async function after its await, given the three promises
\* handed to Promise.all: << >> while it is suspended at the await.
DomainFn(domain, d, w, h) ==
  CASE InnerAll(d, w, h) = "rejected"  -> << ErrorResult(domain) >>
    [] InnerAll(d, w, h) = "fulfilled" ->
         << NormalResult(domain, [dns |-> d.v, whois |-> w.v, http |-> h.v]) >>
    [] OTHER -> << >>

\* The three probes handed to Promise.all without their .catch wrappers.
DomainEvalNoCatch(domain, d, w, h) == DomainFn(domain, d, w, h)

\* What the async function has returned, given the promises of checkDNS,
\* checkWhoisPort and checkHTTP: each is wrapped in .catch(() => false)
\* (lines 105-107).
DomainEval(domain, d, w, h) ==
  DomainFn(domain, CatchFalse(d), CatchFalse(w), CatchFalse(h))

(***************************************************************************)
(* The outer Promise.all (line 100): value i is stored at index i.         *)
(***************************************************************************)
FirstFree(values) ==
  CHOOSE k \in 1..Len(values) :
    values[k] = << >> /\ \A j \in 1..(k - 1) : values[j] # << >>

PromiseAllPush(values, i, r) == [values EXCEPT ![FirstFree(values)] = << r >>]
PromiseAllStore(values, i, r) == [values EXCEPT ![i] = << r >>]

\* What the per-domain function of domain i has returned in the current state.
Returned(i) ==
  DomainEval(body.domains[i], CheckDNS(dnsEv[i]), whoisP[i], httpP[i])

\* The per-domain function of domain i returns r[1], unless it is still
\* suspended (r = << >>) or had returned before (was).
Settle(values, i, was, r) ==
  IF r # << >> /\ ~was THEN PromiseAllStore(values, i, r[1]) ELSE values

\* The continuations of the per-domain functions i..n that can return at
\* once, in index order, given the resolver answers dE and the promises
\* wP, hP of the other probes.
RECURSIVE Continue(_, _, _, _, _, _)
Continue(i, values, doms, dE, wP, hP) ==
  IF i > Len(doms) THEN values
  ELSE Continue(i + 1,
                Settle(values, i, FALSE,
                       DomainEval(doms[i], CheckDNS(dE[i]), wP[i], hP[i])),
                doms, dE, wP, hP)

\* The outer Promise.all is fulfilled once every value is there.
AllReturned(values) == \A k \in 1..Len(values) : values[k] # << >>

\* JSON body of the 200 response.
Json(values) == [kind |-> "json", results |-> [k \in 1..Len(values) |-> values[k][1]]]
NoBody    == [kind |-> "none", results |-> << >>]
EmptyBody == [kind |-> "end",  results |-> << >>]

\* With the values of the outer Promise.all now `values`: once all are
\* there, res.status(200).json(results) (line 142); the response is sent once.
\* The per-domain function catches whatever its body throws (line 127), so
\* the outer Promise.all never rejects and the catch of lines 143-145 is not
\* entered.
Respond(values) ==
  IF pc = "done"
    THEN UNCHANGED << pc, status, sent, results >>
    ELSE /\ results' = values
         /\ IF AllReturned(values)
              THEN /\ pc' = "done"
                   /\ status' = 200
                   /\ sent' = Json(values)
              ELSE /\ pc' = "probing"
                   /\ UNCHANGED << status, sent >>

\* The microtasks a probe callback of domain i leaves behind, d, w, h being
\* the promises of its three probes after the callback: the continuation of
\* its per-domain function, then the response.
Microtasks(i, d, w, h) ==
  Respond(Settle(results, i, Returned(i) # << >>,
                 DomainEval(body.domains[i], d, w, h)))

(***************************************************************************)
(* The handler up to its first suspension (lines 87-108).                  *)
(***************************************************************************)
\* The domains whose probes have been started.
Idx == 1..Len(dnsEv)
IsString(e) == e.type = "string"

NewSocket  == [destroyed |-> FALSE, log |-> << >>]
NewRequest == [reqDestroyed |-> FALSE, resDestroyed |-> FALSE, log |-> << >>]
\* https.get threw while validating options.hostname: there is no request.
NoRequest  == [reqDestroyed |-> FALSE, resDestroyed |-> FALSE, log |-> << "throw" >>]

\* The method check placed after the destructuring of line 92: a body of
\* null then throws before the 405.
MethodNotAllowedAfterBody ==
  /\ pc = "recv"
  /\ method # "POST"
  /\ IF body.kind = "null"
       THEN pc' = "threw" /\ UNCHANGED << status, sent >>
       ELSE pc' = "done" /\ status' = 405 /\ sent' = EmptyBody
  /\ UNCHANGED << method, body, dnsEv, whoisSock, whoisP, httpReq, httpP,
                  results, uvars >>

\* if (req.method !== 'POST') { res.status(405).end(); return; }
MethodNotAllowed ==
  /\ pc = "recv"
  /\ method # "POST"
  /\ pc' = "done"
  /\ status' = 405
  /\ sent' = EmptyBody
  /\ UNCHANGED << method, body, dnsEv, whoisSock, whoisP, httpReq, httpP,
                  results, uvars >>

\* const { domains } = req.body;  with req.body null the destructuring
\* throws a TypeError, and line 92 is outside the try of line 99.
DestructureThrows ==
  /\ pc = "recv"
  /\ method = "POST"
  /\ body.kind = "null"
  /\ pc' = "threw"
  /\ UNCHANGED << method, body, status, sent, dnsEv, whoisSock, whoisP,
                  httpReq, httpP, results, uvars >>

\* if (!Array.isArray(domains)) { res.status(400).end(); return; }
BadRequest ==
  /\ pc = "recv"
  /\ method = "POST"
  /\ body.kind \in { "nodomains", "notarray" }
  /\ pc' = "done"
  /\ status' = 400
  /\ sent' = EmptyBody
  /\ UNCHANGED << method, body, dnsEv, whoisSock, whoisP, httpReq, httpP,
                  results, uvars >>

\* domains.map(async (domain) => ...): every per-domain function runs to its
\* await, which starts the three probes of every domain.  dns.resolve and
\* https.get throw ERR_INVALID_ARG_TYPE at once for a hostname that is not a
\* string; checkWhoisPort never looks at its argument.
StartProbes ==
  /\ pc = "recv"
  /\ method = "POST"
  /\ body.kind = "array"
  /\ LET doms == body.domains
         All == 1..Len(doms)
         dE == [i \in All |-> IF IsString(doms[i]) THEN "pending" ELSE "EINVAL"]
         wP == [i \in All |-> PendingP]
         hP == [i \in All |-> IF IsString(doms[i]) THEN PendingP ELSE RejectedP]
     IN  /\ dnsEv' = dE
         /\ whoisSock' = [i \in All |-> NewSocket]
         /\ whoisP' = wP
         /\ httpReq' = [i \in All |-> IF IsString(doms[i]) THEN NewRequest
                                                           ELSE NoRequest]
         /\ httpP' = hP
         /\ Respond(Continue(1, [i \in All |-> << >>], doms, dE, wP, hP))
  /\ UNCHANGED << method, body, uvars >>

(***************************************************************************)
(* The callbacks of the probes.                                            *)
(***************************************************************************)
Probing == pc \in { "probing", "done" } /\ status \in { 0, 200 }

\* The callback of dns.resolve for domain i, with answer ev.
DnsOn(i, ev) ==
  /\ Probing
  /\ i \in Idx
  /\ dnsEv[i] = "pending"
  /\ dnsEv' = [dnsEv EXCEPT ![i] = ev]
  /\ Microtasks(i, CheckDNS(ev), whoisP[i], httpP[i])
  /\ UNCHANGED << method, body, whoisSock, whoisP, httpReq, httpP, uvars >>

DnsAnswer(i)   == DnsOn(i, "ok")
DnsNotFound(i) == DnsOn(i, "ENOTFOUND")
DnsTimeout(i)  == DnsOn(i, "ETIMEOUT")

\* A handler of the socket of checkWhoisPort (lines 40-53):
\* socket.destroy(); resolve(value).  A destroyed socket emits no connect,
\* timeout or error any more.
WhoisOn(i, ev) ==
  /\ Probing
  /\ i \in Idx
  /\ ~whoisSock[i].destroyed
  /\ whoisSock' = [whoisSock EXCEPT ![i] =
                     [destroyed |-> TRUE, log |-> Append(@.log, ev)]]
  /\ whoisP' = [whoisP EXCEPT ![i] = Resolve(@, WhoisValue(ev))]
  /\ Microtasks(i, CheckDNS(dnsEv[i]), Resolve(whoisP[i], WhoisValue(ev)), httpP[i])
  /\ UNCHANGED << method, body, dnsEv, httpReq, httpP, uvars >>

WhoisConnect(i) == WhoisOn(i, "connect")
WhoisError(i)   == WhoisOn(i, "error")
WhoisTimeout(i) == WhoisTimerArmed /\ WhoisOn(i, "timeout")

\* The response callback of https.get (lines 66-69): res.destroy(); resolve(false).
HttpResponse(i) ==
  /\ Probing
  /\ i \in Idx
  /\ httpReq[i].log = << >>
  /\ httpReq' = [httpReq EXCEPT ![i] =
                   [@ EXCEPT !.resDestroyed = TRUE, !.log = Append(@, "response")]]
  /\ httpP' = [httpP EXCEPT ![i] = Resolve(@, HttpValue("response"))]
  /\ Microtasks(i, CheckDNS(dnsEv[i]), whoisP[i], Resolve(httpP[i], HttpValue("response")))
  /\ UNCHANGED << method, body, dnsEv, whoisSock, whoisP, uvars >>

\* req.on('error') (lines 72-74): resolve(true).  The request emits 'error'
\* at most once: when it fails, or when it is torn down by req.destroy() or
\* with its response destroyed.
HttpError(i) ==
  /\ Probing
  /\ i \in Idx
  /\ \A k \in 1..Len(httpReq[i].log) : httpReq[i].log[k] \notin { "error", "throw" }
  /\ httpReq' = [httpReq EXCEPT ![i] = [@ EXCEPT !.log = Append(@, "error")]]
  /\ httpP' = [httpP EXCEPT ![i] = Resolve(@, HttpValue("error"))]
  /\ Microtasks(i, CheckDNS(dnsEv[i]), whoisP[i], Resolve(httpP[i], HttpValue("error")))
  /\ UNCHANGED << method, body, dnsEv, whoisSock, whoisP, uvars >>

\* req.on('timeout') (lines 76-79): req.destroy(); resolve(true).
HttpTimeout(i) ==
  /\ HttpTimerArmed
  /\ Probing
  /\ i \in Idx
  /\ httpReq[i].log = << >>
  /\ httpReq' = [httpReq EXCEPT ![i] =
                   [@ EXCEPT !.reqDestroyed = TRUE, !.log = Append(@, "timeout")]]
  /\ httpP' = [httpP EXCEPT ![i] = Resolve(@, HttpValue("timeout"))]
  /\ Microtasks(i, CheckDNS(dnsEv[i]), whoisP[i], Resolve(httpP[i], HttpValue("timeout")))
  /\ UNCHANGED << method, body, dnsEv, whoisSock, whoisP, uvars >>

(***************************************************************************)
(* The handler's specification: one request, from its arrival on.          *)
(***************************************************************************)
Init ==
  /\ method \in Methods
  /\ body \in Bodies
  /\ pc = "recv"
  /\ status = 0
  /\ sent = NoBody
  /\ dnsEv = << >>
  /\ whoisSock = << >>
  /\ whoisP = << >>
  /\ httpReq = << >>
  /\ httpP = << >>
  /\ results = << >>
  /\ rawText = << >>
  /\ domainList = << >>
  /\ uiPc = "off"

Next ==
  \/ MethodNotAllowed
  \/ DestructureThrows
  \/ BadRequest
  \/ StartProbes
  \/ \E i \in Idx : DnsAnswer(i)
  \/ \E i \in Idx : DnsNotFound(i)
  \/ \E i \in Idx : DnsTimeout(i)
  \/ \E i \in Idx : WhoisConnect(i)
  \/ \E i \in Idx : WhoisError(i)
  \/ \E i \in Idx : WhoisTimeout(i)
  \/ \E i \in Idx : HttpResponse(i)
  \/ \E i \in Idx : HttpError(i)
  \/ \E i \in Idx : HttpTimeout(i)

Spec == Init /\ [][Next]_vars

\* A timer of some probe fires: the resolver's own timeout behind
\* dns.resolve, the socket timeout of line 38, the request timeout of line 64.
TimerFires ==
  \E i \in Idx : DnsTimeout(i) \/ WhoisTimeout(i) \/ HttpTimeout(i)

\* The scheduling the runtime guarantees: the handler runs once the request
\* is there, and while armed timers remain uncancelled one of them fires.
\* Every firing disarms its timer for good, so each armed timer fires or is
\* cancelled in the end.
Fairness ==
  /\ WF_vars(StartProbes)
  /\ WF_vars(TimerFires)

SpecLive == Init /\ [][Next]_vars /\ Fairness

(***************************************************************************)
(* The page: handleCheck of index.tsx (lines 23-51).                       *)
(***************************************************************************)
\* String.prototype.toLowerCase, on the characters the model uses.
LowerChar(c) ==
  CASE c = "A" -> "a"
    [] c = "H" -> "h"
    [] c = "P" -> "p"
    [] c = "S" -> "s"
    [] c = "T" -> "t"
    [] c = "W" -> "w"
    [] OTHER   -> c

ToLowerCase(s) == [k \in 1..Len(s) |-> LowerChar(s[k])]

\* Whether s starts with the characters of prefix, ignoring case (the i flag).
StartsWithCI(s, prefix) ==
  /\ Len(s) >= Len(prefix)
  /\ \A k \in 1..Len(prefix) : LowerChar(s[k]) = LowerChar(prefix[k])

Drop(s, n) == SubSeq(s, n + 1, Len(s))

\* cleanDomain.replace(/^https?:\/\//i, '')
StripScheme(s) ==
  IF StartsWithCI(s, << "h", "t", "t", "p", ":", "/", "/" >>) THEN Drop(s, 7)
  ELSE IF StartsWithCI(s, << "h", "t", "t", "p", "s", ":", "/", "/" >>) THEN Drop(s, 8)
  ELSE s

\* cleanDomain.replace(/^www\./i, '')
StripWww(s) == IF StartsWithCI(s, << "w", "w", "w", "." >>) THEN Drop(s, 4) ELSE s

\* cleanDomain.split('/')[0]
BeforeSlash(s) ==
  IF \E k \in 1..Len(s) : s[k] = "/"
    THEN SubSeq(s, 1, (CHOOSE k \in 1..Len(s) :
                         s[k] = "/" /\ \A j \in 1..(k - 1) : s[j] # "/") - 1)
    ELSE s

\* The callback of the last map of handleCheck (lines 37-43).
Normalize(domain) == BeforeSlash(StripWww(StripScheme(ToLowerCase(domain))))

IsSpace(c) == c \in { " ", "\n" }

\* String.prototype.trim
RECURSIVE Trim(_)
Trim(s) ==
  IF s = << >> THEN s
  ELSE IF IsSpace(s[1]) THEN Trim(Tail(s))
  ELSE IF IsSpace(s[Len(s)]) THEN Trim(SubSeq(s, 1, Len(s) - 1))
  ELSE s

\* domains.split('\n')
RECURSIVE SplitLines(_)
SplitLines(s) ==
  IF \E k \in 1..Len(s) : s[k] = "\n"
    THEN LET k == CHOOSE k \in 1..Len(s) :
                    s[k] = "\n" /\ \A j \in 1..(k - 1) : s[j] # "\n"
         IN  << SubSeq(s, 1, k - 1) >> \o SplitLines(Drop(s, k))
    ELSE << s >>

\* .filter(Boolean): the empty string is the only falsy string.
NonEmpty(s) == s # << >>

\* domains.split('\n').map(trim).filter(Boolean).map(normalize)
DomainList(text) ==
  LET lines == SplitLines(text)
      trimmed == [k \in 1..Len(lines) |-> Trim(lines[k])]
      kept == SelectSeq(trimmed, NonEmpty)
  IN  [k \in 1..Len(kept) |-> Normalize(kept[k])]

\* The pieces the textarea content is made of.
Pieces ==
  { << "h", "t", "t", "p", ":", "/", "/" >>,
    << "H", "T", "T", "P", "S", ":", "/", "/" >>,
    << "w", "w", "w", "." >>,
    << "W", "w", "W", "." >>,
    << "a" >>,
    << "A", ".", "s" >>,
    << "/" >>,
    << "?" >>,
    << " " >>,
    << "\n" >> }

RECURSIVE Concat(_)
Concat(ps) == IF ps = << >> THEN << >> ELSE Head(ps) \o Concat(Tail(ps))

RawTexts == { Concat(ps) : ps \in SeqUpTo(Pieces, MaxPieces) }

\* if (!domains.trim()) { toast.error(...); return; }
HandleCheckEmpty ==
  /\ uiPc = "idle"
  /\ Trim(rawText) = << >>
  /\ uiPc' = "rejected"
  /\ UNCHANGED << rawText, domainList, hvars >>

\* The domainList of lines 33-43, posted as { domains: domainList }.
HandleCheck ==
  /\ uiPc = "idle"
  /\ Trim(rawText) # << >>
  /\ domainList' = DomainList(rawText)
  /\ uiPc' = "posted"
  /\ UNCHANGED << rawText, hvars >>

InitPage ==
  /\ method = "POST"
  /\ body = [kind |-> "nodomains", domains |-> << >>]
  /\ pc = "off"
  /\ status = 0
  /\ sent = NoBody
  /\ dnsEv = << >>
  /\ whoisSock = << >>
  /\ whoisP = << >>
  /\ httpReq = << >>
  /\ httpP = << >>
  /\ results = << >>
  /\ rawText \in RawTexts
  /\ domainList = << >>
  /\ uiPc = "idle"

NextPage ==
  \/ HandleCheckEmpty
  \/ HandleCheck

SpecPage == InitPage /\ [][NextPage]_vars

(***************************************************************************)
(* Properties.                                                             *)
(***************************************************************************)
\* Every DomainResult that exists: the values of the outer Promise.all and
\* the elements of the JSON body of the response.
ResultsSoFar ==
  { results[k][1] : k \in { j \in 1..Len(results) : results[j] # << >> } }
    \cup { sent.results[k] : k \in 1..Len(sent.results) }

\* At least two of the three flags are true.
TwoOfThree(m) ==
  \/ m.dns /\ m.whois
  \/ m.dns /\ m.http
  \/ m.whois /\ m.http

\* C1: in every DomainResult the handler produces or returns, on the normal
\* path and on the error path, available is true exactly when at least two
\* of methods.dns, methods.whois, methods.http are true.
C1_MajorityVote ==
  \A r \in ResultsSoFar : r.available = TwoOfThree(r.methods)

\* A 200 response with an available result that has exactly two flags set
\* and a result with exactly one flag set that is not available.
C1_Witness ==
  /\ status = 200
  /\ \E j, k \in 1..Len(sent.results) :
       /\ sent.results[j].available
       /\ AvailableCount(sent.results[j].methods) = 2
       /\ ~sent.results[k].available
       /\ AvailableCount(sent.results[k].methods) = 1

\* The flags the probes of domain i have produced: the dns flag from the
\* resolver's answer, the other two from the promises of their probes.
OwnFlags(i) ==
  [dns   |-> dnsEv[i] = "ENOTFOUND",
   whois |-> whoisP[i].st = "fulfilled" /\ whoisP[i].v,
   http  |-> httpP[i].st = "fulfilled" /\ httpP[i].v]

\* C2: the 200 response to a POST whose domains is a sequence of n elements
\* (strings, as in the claim, or not) holds exactly n results, result i has
\* the domain of input element i and the flags of the probes of element i,
\* duplicates included, whatever order the probes and the per-domain
\* evaluations completed in.
C2_OrderPreserved ==
  status = 200 =>
    /\ sent.kind = "json"
    /\ Len(sent.results) = Len(body.domains)
    /\ \A i \in 1..Len(body.domains) :
         /\ sent.results[i].domain = body.domains[i]
         /\ sent.results[i].methods = OwnFlags(i)

\* A 200 response to a batch of two equal strings whose two results differ.
C2_Witness ==
  /\ status = 200
  /\ Len(body.domains) = 2
  /\ IsString(body.domains[1])
  /\ body.domains[1] = body.domains[2]
  /\ sent.results[1].domain = sent.results[2].domain
  /\ sent.results[1].available
  /\ ~sent.results[2].available

\* The probes of domain i that threw or rejected: checkDNS rethrows every
\* resolver error but ENOTFOUND, and the promises of the other two probes
\* say so themselves.
DnsRejected(i)   == dnsEv[i] \in DnsOtherCodes
WhoisRejected(i) == whoisP[i].st = "rejected"
HttpRejected(i)  == httpP[i].st = "rejected"

\* C3: when a probe of a domain throws or rejects, the domain's result has
\* no error field, the flag of that probe is false and the other flags are
\* what their probes produced; every domain's result is decided by its own
\* probes alone, so a failure in one domain leaves the others as they were.
C3_ProbeIsolation ==
  \A i \in 1..Len(results) :
    results[i] # << >> =>
      LET r == results[i][1] IN
      /\ ~r.hasError
      /\ DnsRejected(i) => ~r.methods.dns
      /\ WhoisRejected(i) => ~r.methods.whois
      /\ HttpRejected(i) => ~r.methods.http
      /\ r.methods = OwnFlags(i)
      /\ r.domain = body.domains[i]

\* Domain 1's DNS probe rejected and its two other probes voted true, next
\* to a domain whose DNS probe voted true.
C3_Witness ==
  /\ Len(results) = 2
  /\ results[1] # << >>
  /\ results[2] # << >>
  /\ DnsRejected(1)
  /\ results[1][1].methods = [dns |-> FALSE, whois |-> TRUE, http |-> TRUE]
  /\ results[1][1].available
  /\ ~results[1][1].hasError
  /\ results[2][1].methods.dns

\* The body carries domains as a sequence of strings.
WellFormed(b) ==
  /\ b.kind = "array"
  /\ \A i \in 1..Len(b.domains) : IsString(b.domains[i])

\* C4: once the handler has run on a POST whose body does not carry domains
\* as a sequence of strings (domains missing, not an array, or an array with
\* an element that is not a string), the response is a 400 without a result
\* list and no probe was started.  The body null is left to C5.
C4_MalformedIs400 ==
  (method = "POST" /\ body.kind # "null" /\ ~WellFormed(body) /\ pc # "recv") =>
    /\ status = 400
    /\ sent.kind = "end"
    /\ Len(dnsEv) = 0
    /\ Len(whoisSock) = 0
    /\ Len(httpReq) = 0

\* C5: a failure inside the handler of a POST, reading domains out of the
\* request body included, ends in a 500 response with an empty sequence and
\* no exception leaves the handler.
C5_FailureIs500 ==
  (method = "POST" /\ body.kind = "null" /\ pc # "recv") =>
    /\ pc = "done"
    /\ status = 500
    /\ sent = [kind |-> "json", results |-> << >>]

\* C6: in the result of a domain the dns flag is false when resolution
\* succeeded, true when it failed with ENOTFOUND and false for every other
\* resolver error, and in that last case the result carries no error field.
C6_DnsVote ==
  \A i \in 1..Len(results) :
    results[i] # << >> =>
      LET r == results[i][1] IN
      /\ dnsEv[i] # "pending"
      /\ dnsEv[i] = "ok" => ~r.methods.dns
      /\ dnsEv[i] = "ENOTFOUND" => r.methods.dns
      /\ dnsEv[i] \notin { "ok", "ENOTFOUND" } => ~r.methods.dns /\ ~r.hasError

\* One response with a resolver error next to a name that was not found.
C6_Witness ==
  /\ status = 200
  /\ Len(results) = 2
  /\ dnsEv[1] = "ETIMEOUT"
  /\ ~sent.results[1].methods.dns
  /\ ~sent.results[1].hasError
  /\ dnsEv[2] = "ENOTFOUND"
  /\ sent.results[2].methods.dns

\* C7: the outcome of the WHOIS probe is decided by the first event of its
\* socket: connect gives false, timeout gives false, error gives true.  The
\* handlers destroy the socket, so the first event is the only one.
C7_WhoisFirstEvent ==
  \A i \in 1..Len(whoisSock) :
    LET log == whoisSock[i].log IN
    /\ Len(log) <= 1
    /\ log = << >> => whoisP[i] = PendingP
    /\ log # << >> =>
         /\ whoisSock[i].destroyed
         /\ whoisP[i] = Fulfilled(log[1] = "error")
         /\ results[i] # << >> => results[i][1].methods.whois = (log[1] = "error")

\* One socket timed out and one failed: the first voted false, the second true.
C7_Witness ==
  /\ Len(whoisSock) = 2
  /\ whoisSock[1].log = << "timeout" >>
  /\ whoisP[1] = Fulfilled(FALSE)
  /\ whoisSock[2].log = << "error" >>
  /\ whoisP[2] = Fulfilled(TRUE)

\* C8: the outcome of the HTTP probe is false when a response arrived, true
\* when the request failed and true when it timed out; an error event that
\* follows the response or the timeout does not change the outcome.
C8_HttpFirstEvent ==
  \A i \in 1..Len(httpReq) :
    LET log == httpReq[i].log IN
    /\ log = << >> => httpP[i] = PendingP
    /\ (log # << >> /\ log[1] # "throw") =>
         /\ httpP[i] = Fulfilled(log[1] # "response")
         /\ results[i] # << >> => results[i][1].methods.http = (log[1] # "response")

\* A response arrived, the request then emitted an error, and the outcome
\* is still false, in the result as in the promise.
C8_Witness ==
  \E i \in 1..Len(httpReq) :
    /\ httpReq[i].log = << "response", "error" >>
    /\ httpReq[i].resDestroyed
    /\ httpP[i] = Fulfilled(FALSE)
    /\ results[i] # << >>
    /\ ~results[i][1].methods.http

\* No probe is pending and every per-domain evaluation has returned.
AllSettled ==
  /\ Len(results) = Len(body.domains)
  /\ \A i \in 1..Len(results) :
       /\ dnsEv[i] # "pending"
       /\ whoisP[i].st # "pending"
       /\ httpP[i].st # "pending"
       /\ results[i] # << >>

\* C9: with timers that fire, every POST with an array body is eventually
\* answered, with every probe out of the pending state and every per-domain
\* evaluation complete, even when the network never answers.
C9_EventuallyAnswered ==
  (method = "POST" /\ body.kind = "array") ~> (status = 200 /\ AllSettled)

\* A response to a batch of which one domain's three probes all ended by
\* their timeouts.
C9_Witness ==
  /\ status = 200
  /\ AllSettled
  /\ \E i \in 1..Len(results) :
       /\ dnsEv[i] = "ETIMEOUT"
       /\ whoisSock[i].log = << "timeout" >>
       /\ httpReq[i].log[1] = "timeout"

\* C10: normalizing a normalized string changes nothing, for every line the
\* page has normalized.
C10_Idempotent ==
  uiPc = "posted" =>
    \A k \in 1..Len(domainList) : Normalize(domainList[k]) = domainList[k]

\* C11: every line the page has normalized is a canonical hostname: lowercase,
\* without a leading http:// or https://, without a leading www., and without
\* a path, query or fragment part.
HasUpper(s) == \E k \in 1..Len(s) : LowerChar(s[k]) # s[k]

HasPart(s) == \E k \in 1..Len(s) : s[k] \in { "/", "?", "#" }

Canonical(s) ==
  /\ ~HasUpper(s)
  /\ ~StartsWithCI(s, << "h", "t", "t", "p", ":", "/", "/" >>)
  /\ ~StartsWithCI(s, << "h", "t", "t", "p", "s", ":", "/", "/" >>)
  /\ ~StartsWithCI(s, << "w", "w", "w", "." >>)
  /\ ~HasPart(s)

C11_Canonical ==
  uiPc = "posted" => \A k \in 1..Len(domainList) : Canonical(domainList[k])

\* C12: the hostname the handler probes and stores in DomainResult.domain is
\* the normalized form of the string submitted in domains.
C12_NormalizedAtBoundary ==
  \A i \in 1..Len(results) :
    (results[i] # << >> /\ IsString(body.domains[i])) =>
      results[i][1].domain = Str(Normalize(body.domains[i].val))

\* C13: a request whose method is not POST is answered 405 with no body; the
\* handler has then read nothing from the body (a body of null does not make
\* it throw) and has started no probe.
C13_NotPostIs405 ==
  (method # "POST" /\ pc # "recv") =>
    /\ pc = "done"
    /\ status = 405
    /\ sent = [kind |-> "end", results |-> << >>]
    /\ dnsEv = << >> /\ whoisSock = << >> /\ httpReq = << >>
    /\ whoisP = << >> /\ httpP = << >> /\ results = << >>

C13_Witness ==
  /\ method = "GET"
  /\ body.kind = "null"
  /\ status = 405
  /\ sent.kind = "end"

\* The per-domain evaluation of domain i threw: the await of line 104 was
\* rejected.
Threw(i) ==
  InnerAll(CatchFalse(CheckDNS(dnsEv[i])), CatchFalse(whoisP[i]),
           CatchFalse(httpP[i])) = "rejected"

HasErrorResult ==
  \E j \in 1..Len(results) : results[j] # << >> /\ results[j][1].hasError

C15_JoinBeforeResult ==
  /\ \A i \in 1..Len(results) :
       results[i] # << >> =>
         /\ dnsEv[i] # "pending"
         /\ whoisP[i].st # "pending"
         /\ httpP[i].st # "pending"
  /\ sent.kind = "json" =>
       /\ Len(sent.results) = Len(body.domains)
       /\ \A i \in 1..Len(body.domains) :
            /\ results[i] = << sent.results[i] >>
            /\ dnsEv[i] # "pending"
            /\ whoisP[i].st # "pending"
            /\ httpP[i].st # "pending"

\* Domain 1 has its result, domain 2 has two probes resolved and one pending
\* and no result, and nothing has been sent.
C15_Witness ==
  /\ Len(results) = 2
  /\ results[1] # << >>
  /\ results[2] = << >>
  /\ dnsEv[2] # "pending"
  /\ httpP[2].st = "fulfilled"
  /\ whoisP[2].st = "pending"
  /\ status = 0
  /\ sent.kind = "none"

\* C16: each probe produces one outcome: once the DNS query has answered, or
\* the promise of a WHOIS or HTTP probe is resolved, no later step (a connect,
\* response, timeout or error event on the same socket or request) changes the
\* recorded outcome, nor the result computed from it.
C16_OutcomeFixed ==
  [][\A i \in 1..Len(whoisP) :
       /\ dnsEv[i] # "pending" => dnsEv'[i] = dnsEv[i]
       /\ whoisP[i].st # "pending" => whoisP'[i] = whoisP[i]
       /\ httpP[i].st # "pending" => httpP'[i] = httpP[i]
       /\ results[i] # << >> => results'[i] = results[i]]_vars

\* The 200 response is out with http false for a domain whose request saw a
\* response and then an error; its socket connected and was destroyed.
C16_Witness ==
  \E i \in 1..Len(httpReq) :
    /\ status = 200
    /\ httpReq[i].log = << "response", "error" >>
    /\ httpP[i] = Fulfilled(FALSE)
    /\ ~sent.results[i].methods.http
    /\ whoisSock[i].log = << "connect" >>
    /\ whoisSock[i].destroyed
    /\ whoisP[i] = Fulfilled(FALSE)

\* The result of domain i as a function of the element submitted and of the
\* outcomes of its own three probes.
OwnResult(i) ==
  [domain    |-> body.domains[i],
   available |-> TwoOfThree(OwnFlags(i)),
   methods   |-> OwnFlags(i),
   hasError  |-> FALSE,
   error     |-> ""]

\* C17: the result of a domain is a function of its own three probe outcomes
\* and of nothing else, at whatever point of the interleaving it is computed,
\* so the list in the response is the same for the same probe outcomes under
\* every order of probe completions.
C17_InterleavingFree ==
  /\ \A i \in 1..Len(results) : results[i] # << >> => results[i][1] = OwnResult(i)
  /\ status = 200 =>
       sent.results = [i \in 1..Len(body.domains) |-> OwnResult(i)]

\* The second domain returned before the first, as available, while the first
\* has two probes resolved with a true vote and one pending.
C17_Witness ==
  /\ Len(results) = 2
  /\ results[1] = << >>
  /\ results[2] # << >>
  /\ results[2][1].available
  /\ dnsEv[1] = "ENOTFOUND"
  /\ whoisP[1] = Fulfilled(TRUE)
  /\ httpP[1].st = "pending"

\* C18, as claimed: all results of one response carry the same methods.whois.
C18_SameWhois ==
  status = 200 =>
    \A i, j \in 1..Len(sent.results) :
      sent.results[i].methods.whois = sent.results[j].methods.whois

\* The first event of domain i's socket was an error.
WhoisFailed(i) == whoisSock[i].log # << >> /\ whoisSock[i].log[1] = "error"

\* C18, amended: every domain opens its own connection to the one WHOIS
\* endpoint, whatever its hostname is, and two results of one response carry
\* the same methods.whois exactly when their two connections had the same
\* outcome (both failed, or both connected or timed out).
C18_WhoisPerConnection ==
  status = 200 =>
    \A i, j \in 1..Len(sent.results) :
      (sent.results[i].methods.whois = sent.results[j].methods.whois)
        <=> (WhoisFailed(i) = WhoisFailed(j))

\* One batch with the same hostname twice: the first connection was made,
\* the second failed, and the two results differ in methods.whois only.
C18_Witness ==
  /\ status = 200
  /\ Len(sent.results) = 2
  /\ IsString(body.domains[1])
  /\ body.domains[1] = body.domains[2]
  /\ whoisSock[1].log = << "connect" >>
  /\ whoisSock[2].log = << "error" >>
  /\ ~sent.results[1].methods.whois
  /\ sent.results[2].methods.whois
  /\ sent.results[1].methods.dns = sent.results[2].methods.dns
  /\ sent.results[1].methods.http = sent.results[2].methods.http

\* Two probes of domain i threw or rejected.
ProbesThrew(i) == DnsRejected(i) /\ HttpRejected(i)

====
